---------------------------- MODULE Spec2Model ----------------------------
(***************************************************************************)
(* A model of the generic MCP server of                                    *)
(* "src/Boilerplate /mcp-server-boilerplate.py": the tool registry         *)
(* (MCPServer.tools), the JSON-RPC message handler                         *)
(* (MCPServer.handle_messages) and the SSE session generator               *)
(* (MCPServer.handle_sse.event_stream).                                    *)
(*                                                                         *)
(* Python values are encoded as follows.                                   *)
(*   - The dict self.tools is a sequence of tool objects in insertion      *)
(*     order (a Python dict iterates in insertion order; del keeps the     *)
(*     order of the rest; a new key goes last).  The key of an entry is    *)
(*     the name of the tool object stored under it.                        *)
(*   - The dict self.sessions is the set of its keys.                      *)
(*   - A string built with an f-string is the sequence of its pieces.      *)
(*   - JSON null is "null", Python None is "None", a key that is missing   *)
(*     from a JSON object is "absent".                                     *)
(***************************************************************************)
EXTENDS Naturals, Integers, Sequences, FiniteSets, TLC

(***************************************************************************)
(* Bounds of the model.                                                    *)
(***************************************************************************)
MaxCtorTools == 2
MaxSessions == 2
MaxKeepalive == 2
NumReq == 1

(***************************************************************************)
(* Tool objects.  ExampleTool is the tool of the source; AlphaTool and     *)
(* AlphaTool2 are two distinct BaseTool instances with the same name,      *)
(* whose execute is supplied by the user of the boilerplate.               *)
(***************************************************************************)
ExampleTool ==
    [name |-> "example_tool",
     description |-> "An example tool that echoes back the input",
     input_schema |-> "schema:message",
     impl |-> "ExampleTool"]

AlphaTool ==
    [name |-> "alpha", description |-> "first alpha",
     input_schema |-> "schema:alpha1", impl |-> "custom"]

AlphaTool2 ==
    [name |-> "alpha", description |-> "second alpha",
     input_schema |-> "schema:alpha2", impl |-> "custom"]

ToolObjs == {ExampleTool, AlphaTool, AlphaTool2}

ToolNames == {t.name : t \in ToolObjs}

to_mcp_tool(tool) ==
    [name |-> tool.name, description |-> tool.description,
     inputSchema |-> tool.input_schema]

(***************************************************************************)
(* The registry dict.                                                      *)
(***************************************************************************)
Keys(reg) == {reg[i].name : i \in 1..Len(reg)}

HasKey(reg, name) == \E i \in 1..Len(reg) : reg[i].name = name

Lookup(reg, name) == reg[CHOOSE i \in 1..Len(reg) : reg[i].name = name]

RECURSIVE DelKey(_, _)
DelKey(reg, name) ==
    IF reg = <<>> THEN <<>>
    ELSE IF Head(reg).name = name THEN DelKey(Tail(reg), name)
    ELSE <<Head(reg)>> \o DelKey(Tail(reg), name)

\* self.tools[tool.name] = tool: replaces the value of an existing key in
\* place, and appends a new key.
SetKey(reg, tool) ==
    IF HasKey(reg, tool.name)
    THEN [i \in 1..Len(reg) |-> IF reg[i].name = tool.name THEN tool ELSE reg[i]]
    ELSE Append(reg, tool)

register_tool_overwrite(reg, tool) ==
    [tools |-> SetKey(reg, tool), raised |-> "none"]

register_tool(reg, tool) ==
    IF HasKey(reg, tool.name)
    THEN [tools |-> reg, raised |-> "ValueError"]
    ELSE [tools |-> SetKey(reg, tool), raised |-> "none"]

unregister_tool(reg, tool_name) ==
    IF HasKey(reg, tool_name) THEN DelKey(reg, tool_name) ELSE reg

list_tools_reversed(reg) ==
    [i \in 1..Len(reg) |-> to_mcp_tool(reg[Len(reg) + 1 - i])]

list_tools(reg) == [i \in 1..Len(reg) |-> to_mcp_tool(reg[i])]

\* The loop of __init__: registers the tools one by one and stops at the
\* first register_tool that raises.
RECURSIVE RegisterAll(_, _)
RegisterAll(reg, ts) ==
    IF ts = <<>> THEN [tools |-> reg, raised |-> "none"]
    ELSE LET r == register_tool(reg, Head(ts))
         IN  IF r.raised # "none" THEN r ELSE RegisterAll(r.tools, Tail(ts))


(***************************************************************************)
(* Configuration of main() and the protocol's error codes.                 *)
(***************************************************************************)
SERVER_NAME == "my-mcp-server"
SERVER_VERSION == "0.1.0"
PROTOCOL_VERSION == "2024-11-05"
INTERNAL_ERROR == -32603
METHOD_NOT_FOUND == -32601

(***************************************************************************)
(* Request bodies.  kind is what the bytes of the body are: "undecodable"  *)
(* (not JSON), "list" (JSON, but not an object) or "object".  The other    *)
(* fields are the members of the object; name and arguments are the        *)
(* members of params when params is itself an object.                      *)
(***************************************************************************)
Body(kind, method, id, params, name, arguments) ==
    [kind |-> kind, method |-> method, id |-> id, params |-> params,
     name |-> name, arguments |-> arguments]

ReqIds == {"absent", "null", "id-7"}

\* "list" is a name that is a JSON list, which Python cannot hash.
NameValues == {"absent", "example_tool", "alpha", "zz", "list"}

\* "{message: }" is an object whose message is the empty string.
ArgValues == {"absent", "null", "{}", "{message: hi}", "{message: }"}

UndecodableBody == Body("undecodable", "n/a", "n/a", "n/a", "n/a", "n/a")

ListBody == Body("list", "n/a", "n/a", "n/a", "n/a", "n/a")

\* Every name with every arguments under one id, and every name with every
\* id: no statement of the handler reads both the id and the arguments.
CallBodies ==
    {Body("object", "tools/call", "id-7", "object", n, a) :
        n \in NameValues, a \in ArgValues}
    \cup {Body("object", "tools/call", i, "object", n, "absent") :
        i \in ReqIds, n \in NameValues}
    \cup {Body("object", "tools/call", i, p, "n/a", "n/a") :
        i \in ReqIds, p \in {"absent", "null", "list"}}

OtherBodies ==
    {Body("object", m, i, p, "n/a", "n/a") :
        m \in {"initialize", "tools/list", "foo/bar", "absent"},
        i \in ReqIds, p \in {"absent", "null"}}
    \cup {Body("object", m, i, "object", "alpha", "absent") :
        m \in {"initialize", "tools/list", "foo/bar", "absent"}, i \in ReqIds}

Bodies == {UndecodableBody, ListBody} \cup CallBodies \cup OtherBodies

(***************************************************************************)
(* Python and JSON conversions.                                            *)
(***************************************************************************)
\* d.get(key): None when the key is missing; a JSON null was loaded as None.
dict_get(v) == IF v \in {"absent", "null"} THEN "None" ELSE v

\* d.get(key, {}): the default only when the key is missing.
dict_get_default(v) ==
    IF v = "absent" THEN "{}" ELSE IF v = "null" THEN "None" ELSE v

\* json.dumps of a scalar: None is written as null.
json_scalar(v) == IF v = "None" THEN "null" ELSE v

\* str(v) inside an f-string.
str(v) == v

Exc(type, msg) == [type |-> type, msg |-> msg]

NoExc == Exc("none", <<>>)

(***************************************************************************)
(* Content items a tool can return.  cls is the Python class of the item.  *)
(***************************************************************************)
TextContent(text) == [cls |-> "TextContent", type |-> "text", text |-> text]

ImageContent ==
    [cls |-> "ImageContent", type |-> "image", data |-> "aGk=",
     mimeType |-> "image/png"]

\* Its resource field holds a TextResourceContents object, which json.dumps
\* cannot serialize.
EmbeddedResource ==
    [cls |-> "EmbeddedResource", type |-> "resource",
     resource |-> "<TextResourceContents>"]

\* An item of no content class: a plain string, which has no type attribute.
PlainStr == [cls |-> "str"]

Returned(content) == [exc |-> NoExc, content |-> content]

Raised(e) == [exc |-> e, content |-> <<>>]

\* ExampleTool.execute.  not message is true of None and of the empty string.
ExampleExecute(arguments) ==
    IF arguments = "None"
    THEN Raised(Exc("AttributeError",
                    <<"'NoneType' object has no attribute 'get'">>))
    ELSE
    LET message == IF arguments = "{message: hi}" THEN "hi"
                   ELSE IF arguments = "{message: }" THEN ""
                   ELSE "None"
    IN  IF message \in {"None", ""}
        THEN Raised(Exc("ValueError", <<"Missing required argument: message">>))
        ELSE Returned(<<TextContent(<<"Echo: ", message>>)>>)

\* What the execute of a user-supplied tool can do once it finishes.
CustomOutcomes ==
    {Raised(Exc("RuntimeError", <<"boom">>))}
    \cup {Returned(c) : c \in {<<>>, <<TextContent(<<"ok">>)>>,
                               <<ImageContent, TextContent(<<"ok">>)>>,
                               <<EmbeddedResource>>, <<PlainStr>>}}

(***************************************************************************)
(* call_tool up to its await of tool.execute.                              *)
(***************************************************************************)
\* call_tool without the replacement of None by {}.
call_tool_keep_none(reg, name, arguments) ==
    IF name = "list"
    THEN [exc |-> Exc("TypeError", <<"unhashable type: 'list'">>)]
    ELSE IF ~HasKey(reg, name)
    THEN [exc |-> Exc("ValueError", <<"Unknown tool: ", str(name)>>)]
    ELSE [exc |-> NoExc, tool |-> Lookup(reg, name), arguments |-> arguments]

call_tool(reg, name, arguments) ==
    IF name = "list"
    THEN [exc |-> Exc("TypeError", <<"unhashable type: 'list'">>)]
    ELSE IF ~HasKey(reg, name)
    THEN [exc |-> Exc("ValueError", <<"Unknown tool: ", str(name)>>)]
    ELSE [exc |-> NoExc, tool |-> Lookup(reg, name),
          arguments |-> IF arguments = "None" THEN "{}" ELSE arguments]

(***************************************************************************)
(* Envelopes and responses.                                                *)
(***************************************************************************)
SuccessEnvelope(request_id, result) ==
    [jsonrpc |-> "2.0", id |-> request_id, result |-> result]

\* An error envelope that also carries an empty result.
ErrorEnvelope_with_result(request_id, code, message) ==
    [jsonrpc |-> "2.0", id |-> request_id, result |-> [content |-> <<>>],
     error |-> [code |-> code, message |-> message]]

ErrorEnvelope(request_id, code, message) ==
    [jsonrpc |-> "2.0", id |-> request_id,
     error |-> [code |-> code, message |-> message]]

\* One entry of result.content.
RenderContent(content) ==
    IF content.cls = "TextContent"
    THEN [type |-> "text", text |-> content.text]
    ELSE [k \in DOMAIN content \ {"cls"} |-> content[k]]

\* The list comprehension of result.content: content.type raises for an item
\* that has no such attribute.
Marshal(result) ==
    IF \E i \in 1..Len(result) :
          result[i].cls # "TextContent" /\ "type" \notin DOMAIN result[i]
    THEN [exc |-> Exc("AttributeError",
                      <<"'str' object has no attribute 'type'">>)]
    ELSE [exc |-> NoExc,
          content |-> [i \in 1..Len(result) |-> RenderContent(result[i])]]

\* Whether json.dumps accepts the envelope.
Serializable(envelope) ==
    IF "result" \in DOMAIN envelope /\ "content" \in DOMAIN envelope.result
    THEN \A i \in 1..Len(envelope.result.content) :
            "resource" \notin DOMAIN envelope.result.content[i]
    ELSE TRUE

\* json.dumps(envelope), for an envelope it accepts.
json_dumps(envelope) ==
    [envelope EXCEPT !.id = json_scalar(envelope.id)]

\* What handle_messages did: it returned a Response, or an exception left it.
Response(status_code, envelope) ==
    [returned |-> TRUE, status_code |-> status_code,
     body |-> json_dumps(envelope)]

Propagated(e) == [returned |-> FALSE, exc |-> e]

(***************************************************************************)
(* handle_messages.  It runs without suspension up to the await of         *)
(* tool.execute (Begin), and from the end of execute to its return         *)
(* (AfterExecute).  ExampleTool.execute has no await and runs inside       *)
(* Begin's step.                                                           *)
(***************************************************************************)
\* The outer handler with a constant id.
OuterExcept_null_id(body, bound, e) ==
    IF bound /\ body.kind # "object"
    THEN Propagated(Exc("AttributeError",
                        <<"'list' object has no attribute 'get'">>))
    ELSE Response(500,
             ErrorEnvelope("None", INTERNAL_ERROR,
                           <<"Internal error: ">> \o e.msg))

\* The handler of the outer try.  bound says whether the local variable body
\* had been assigned when the exception was raised.
OuterExcept(body, bound, e) ==
    IF bound /\ body.kind # "object"
    THEN Propagated(Exc("AttributeError",
                        <<"'list' object has no attribute 'get'">>))
    ELSE Response(500,
             ErrorEnvelope(IF bound THEN dict_get(body.id) ELSE "None",
                           INTERNAL_ERROR, <<"Internal error: ">> \o e.msg))

\* return Response(content=json.dumps(response), ...)
Finish(body, envelope) ==
    IF Serializable(envelope)
    THEN Response(200, envelope)
    ELSE OuterExcept(body, TRUE,
             Exc("TypeError",
                 <<"Object of type TextResourceContents is not JSON serializable">>))

MethodNotFoundEnvelope_internal(request_id, method) ==
    ErrorEnvelope(request_id, INTERNAL_ERROR,
                  <<"Method not found: ", str(method)>>)

MethodNotFoundEnvelope(request_id, method) ==
    ErrorEnvelope(request_id, METHOD_NOT_FOUND,
                  <<"Method not found: ", str(method)>>)

ToolErrorEnvelope(request_id, e) ==
    ErrorEnvelope(request_id, INTERNAL_ERROR,
                  <<"Tool execution error: ">> \o e.msg)

\* The inner try without its except clause.
AfterExecute_no_inner_except(body, outcome) ==
    LET request_id == dict_get(body.id)
        m == Marshal(outcome.content)
        e == IF outcome.exc # NoExc THEN outcome.exc ELSE m.exc
    IN  IF e # NoExc
        THEN OuterExcept(body, TRUE, e)
        ELSE Finish(body, SuccessEnvelope(request_id, [content |-> m.content]))

\* The inner try of tools/call, from the point where call_tool has returned
\* or raised.
AfterExecute(body, outcome) ==
    LET request_id == dict_get(body.id)
        m == Marshal(outcome.content)
        e == IF outcome.exc # NoExc THEN outcome.exc ELSE m.exc
    IN  IF e # NoExc
        THEN Finish(body, ToolErrorEnvelope(request_id, e))
        ELSE Finish(body, SuccessEnvelope(request_id, [content |-> m.content]))

Done(outcome, called) == [next |-> "done", outcome |-> outcome, called |-> called]

Await(tool, arguments) ==
    [next |-> "await", tool |-> tool, arguments |-> arguments]

ToolsListResult(reg) ==
    LET ts == list_tools(reg)
    IN  [tools |-> [i \in 1..Len(ts) |->
                      [name |-> ts[i].name, description |-> ts[i].description,
                       inputSchema |-> ts[i].inputSchema]]]

\* The descriptor with the two members of serverInfo exchanged.
InitializeResult_swapped ==
    [protocolVersion |-> PROTOCOL_VERSION,
     capabilities |-> [tools |-> "{}"],
     serverInfo |-> [name |-> SERVER_VERSION, version |-> SERVER_NAME]]

InitializeResult ==
    [protocolVersion |-> PROTOCOL_VERSION,
     capabilities |-> [tools |-> "{}"],
     serverInfo |-> [name |-> SERVER_NAME, version |-> SERVER_VERSION]]

Begin(reg, body) ==
    IF body.kind = "undecodable"
    THEN Done(OuterExcept(body, FALSE,
                  Exc("JSONDecodeError", <<"Expecting value">>)), FALSE)
    ELSE IF body.kind # "object"
    THEN Done(OuterExcept(body, TRUE,
                  Exc("AttributeError",
                      <<"'list' object has no attribute 'get'">>)), FALSE)
    ELSE
    LET method == dict_get(body.method)
        request_id == dict_get(body.id)
    IN  IF method = "tools/list"
        THEN Done(Finish(body, SuccessEnvelope(request_id, ToolsListResult(reg))),
                  FALSE)
        ELSE IF method = "tools/call"
        THEN LET params == dict_get_default(body.params)
             IN  IF params \in {"None", "list"}
                 THEN Done(OuterExcept(body, TRUE,
                               Exc("AttributeError",
                                   <<IF params = "None"
                                     THEN "'NoneType' object has no attribute 'get'"
                                     ELSE "'list' object has no attribute 'get'">>)),
                           FALSE)
                 ELSE
                 LET tool_name == IF params = "{}" THEN "None"
                                  ELSE dict_get(body.name)
                     arguments == IF params = "{}" THEN "{}"
                                  ELSE dict_get_default(body.arguments)
                     c == call_tool(reg, tool_name, arguments)
                 IN  IF c.exc # NoExc
                     THEN Done(AfterExecute(body, Raised(c.exc)), TRUE)
                     ELSE Await(c.tool, c.arguments)
        ELSE IF method = "initialize"
        THEN Done(Finish(body, SuccessEnvelope(request_id, InitializeResult)),
                  FALSE)
        ELSE Done(Finish(body, MethodNotFoundEnvelope(request_id, method)),
                  FALSE)

\* The response of handle_messages to body when the registry is reg and the
\* execute of a user-supplied tool, if one is called, does x.
Answer(reg, body, x) ==
    LET step == Begin(reg, body)
    IN  IF step.next = "done" THEN step.outcome
        ELSE AfterExecute(body,
                 IF step.tool.impl = "ExampleTool"
                 THEN ExampleExecute(step.arguments) ELSE x)

(***************************************************************************)
(* State.                                                                  *)
(*   tools, sessions  the two dicts of MCPServer                           *)
(*   phase            "new" inside __init__ before the tools are           *)
(*                    registered, "serving" once it returned, "failed"     *)
(*                    when it raised                                       *)
(*   req              the handle_messages calls suspended in tool.execute  *)
(*   sess             the event_stream generators                          *)
(*   last             the operation that ran last, with what it was given  *)
(*                    and what came out of it                              *)
(*   regd, before     history: the tool objects whose registration         *)
(*                    succeeded and were not unregistered since, and the   *)
(*                    pairs of their names in order of registration        *)
(***************************************************************************)
VARIABLES tools, sessions, phase, req, sess, last, regd, before

vars == <<tools, sessions, phase, req, sess, last, regd, before>>

Req == 1..NumReq

\* The calls of handle_messages that can be in flight together: one more
\* than SpecMsg uses, for the specifications about concurrent requests.
ConcReq == 1..(NumReq + 1)

Slots == 1..MaxSessions

SeqsUpTo(S, n) == UNION {[1..k -> S] : k \in 0..n}

CtorArgs == SeqsUpTo(ToolObjs, MaxCtorTools)

UnregisterNames == ToolNames \cup {"zz"}

NoOp == [op |-> "none"]

Idle == [pc |-> "idle"]

Closed == [pc |-> "closed", id |-> 0, events |-> <<>>, waited |-> 0]

Init ==
    /\ tools = <<>>
    /\ sessions = {}
    /\ phase = "new"
    /\ req = [r \in ConcReq |-> Idle]
    /\ sess = [s \in Slots |-> Closed]
    /\ last = NoOp
    /\ regd = {}
    /\ before = {}

(***************************************************************************)
(* The registry operations.                                                *)
(***************************************************************************)
\* The pairs of names of ts, earlier before later.
OrderOf(ts) ==
    {p \in ToolNames \X ToolNames :
        \E i, j \in 1..Len(ts) : i < j /\ p = <<ts[i].name, ts[j].name>>}

\* MCPServer.__init__(tools=ts)
Construct(ts) ==
    /\ phase = "new"
    /\ LET r == RegisterAll(tools, ts)
       IN  /\ tools' = r.tools
           /\ phase' = IF r.raised = "none" THEN "serving" ELSE "failed"
           /\ last' = [op |-> "__init__", args |-> ts, raised |-> r.raised]
           /\ regd' = IF r.raised = "none"
                      THEN {ts[i] : i \in 1..Len(ts)} ELSE regd
           /\ before' = IF r.raised = "none" THEN OrderOf(ts) ELSE before
    /\ UNCHANGED <<sessions, req, sess>>

RegisterTool(t) ==
    /\ phase = "serving"
    /\ LET r == register_tool(tools, t)
       IN  /\ tools' = r.tools
           /\ last' = [op |-> "register_tool", tool |-> t, raised |-> r.raised]
           /\ regd' = IF r.raised = "none" THEN regd \cup {t} ELSE regd
           /\ before' = IF r.raised = "none"
                        THEN before \cup {<<u.name, t.name>> : u \in regd}
                        ELSE before
    /\ UNCHANGED <<sessions, phase, req, sess>>

\* unregister_tool that also drops the calls of the tool that are in flight.
UnregisterTool_cancels(n) ==
    /\ phase = "serving"
    /\ tools' = unregister_tool(tools, n)
    /\ last' = [op |-> "unregister_tool", name |-> n]
    /\ regd' = {u \in regd : u.name # n}
    /\ before' = {p \in before : p[1] # n /\ p[2] # n}
    /\ req' = [r \in DOMAIN req |->
                 IF req[r].pc = "execute" /\ req[r].tool.name = n
                 THEN Idle ELSE req[r]]
    /\ UNCHANGED <<sessions, phase, sess>>

UnregisterTool(n) ==
    /\ phase = "serving"
    /\ tools' = unregister_tool(tools, n)
    /\ last' = [op |-> "unregister_tool", name |-> n]
    /\ regd' = {u \in regd : u.name # n}
    /\ before' = {p \in before : p[1] # n /\ p[2] # n}
    /\ UNCHANGED <<sessions, phase, req, sess>>

(***************************************************************************)
(* The message handler.                                                    *)
(***************************************************************************)
\* called: call_tool was called; ran: the tool whose execute was called, if
\* any; args: the arguments execute was given; exec: what execute did; at:
\* "arrival" when the response was produced without suspension, "resume"
\* when it followed a suspended execute.
Handled(body, outcome, called, ran, args, exec, at) ==
    [op |-> "handle_messages", body |-> body, outcome |-> outcome,
     called |-> called, ran |-> ran, args |-> args, exec |-> exec, at |-> at]

\* A handler that waits for the calls in flight before it takes a request.
Dispatch_serialized(r, body) ==
    /\ phase = "serving"
    /\ req[r].pc = "idle"
    /\ \A q \in DOMAIN req : req[q].pc # "execute"
    /\ LET step == Begin(tools, body)
       IN  IF step.next = "done"
           THEN /\ last' = Handled(body, step.outcome, step.called, <<>>,
                                   "n/a", Raised(NoExc), "arrival")
                /\ req' = req
           ELSE IF step.tool.impl = "ExampleTool"
           THEN LET x == ExampleExecute(step.arguments)
                IN  /\ last' = Handled(body, AfterExecute(body, x), TRUE,
                                       <<step.tool>>, step.arguments, x,
                                       "arrival")
                    /\ req' = req
           ELSE /\ req' = [req EXCEPT ![r] =
                             [pc |-> "execute", body |-> body,
                              tool |-> step.tool,
                              arguments |-> step.arguments]]
                /\ last' = NoOp
    /\ UNCHANGED <<tools, sessions, phase, sess, regd, before>>

\* A POST arrives and handle_messages runs to its return, or to its await of
\* a user-supplied tool's execute.
Dispatch(r, body) ==
    /\ phase = "serving"
    /\ req[r].pc = "idle"
    /\ LET step == Begin(tools, body)
       IN  IF step.next = "done"
           THEN /\ last' = Handled(body, step.outcome, step.called, <<>>,
                                   "n/a", Raised(NoExc), "arrival")
                /\ req' = req
           ELSE IF step.tool.impl = "ExampleTool"
           THEN LET x == ExampleExecute(step.arguments)
                IN  /\ last' = Handled(body, AfterExecute(body, x), TRUE,
                                       <<step.tool>>, step.arguments, x,
                                       "arrival")
                    /\ req' = req
           ELSE /\ req' = [req EXCEPT ![r] =
                             [pc |-> "execute", body |-> body,
                              tool |-> step.tool,
                              arguments |-> step.arguments]]
                /\ last' = NoOp
    /\ UNCHANGED <<tools, sessions, phase, sess, regd, before>>

\* A handler that answers and goes on waiting for the same execute.
ToolFinishes_twice(r, x) ==
    /\ req[r].pc = "execute"
    /\ last' = Handled(req[r].body, AfterExecute(req[r].body, x), TRUE,
                       <<req[r].tool>>, req[r].arguments, x, "resume")
    /\ req' = req
    /\ UNCHANGED <<tools, sessions, phase, sess, regd, before>>

\* The execute of a user-supplied tool returns or raises, and handle_messages
\* runs to its return.
ToolFinishes(r, x) ==
    /\ req[r].pc = "execute"
    /\ last' = Handled(req[r].body, AfterExecute(req[r].body, x), TRUE,
                       <<req[r].tool>>, req[r].arguments, x, "resume")
    /\ req' = [req EXCEPT ![r] = Idle]
    /\ UNCHANGED <<tools, sessions, phase, sess, regd, before>>

(***************************************************************************)
(* The SSE sessions.  A generator event_stream() is suspended at the yield *)
(* of line 141 ("yield_connected"), in the sleep of line 146 ("sleep") or  *)
(* at the yield of line 147 ("yield_keepalive").  id(request) is an        *)
(* address: no two request objects that are alive have the same one, and   *)
(* a request is alive while its generator is, or while self.sessions       *)
(* holds it.                                                               *)
(***************************************************************************)
ObjIds == 1..MaxSessions

\* asyncio.sleep(15)
KEEPALIVE_INTERVAL == 15

Running == {"created", "yield_connected", "sleep", "yield_keepalive"}

LiveIds == sessions \cup {sess[s].id : s \in {t \in Slots : sess[t].pc \in Running}}

Keepalives(events) ==
    Cardinality({i \in 1..Len(events) : events[i] = "keepalive"})

Stream(s) == [op |-> "event_stream", slot |-> s]

\* GET /sse: handle_sse returns the StreamingResponse around a new generator.
HandleSse(s, i) ==
    /\ phase = "serving"
    /\ sess[s].pc \in {"closed", "finished"}
    /\ i \notin LiveIds
    /\ sess' = [sess EXCEPT ![s] = [pc |-> "created", id |-> i, events |-> <<>>,
                                    waited |-> 0]]
    /\ last' = Stream(s)
    /\ UNCHANGED <<tools, sessions, phase, req, regd, before>>

\* A generator that yields the connected event without registering.
StartStream_unregistered(s) ==
    /\ sess[s].pc = "created"
    /\ sessions' = sessions
    /\ sess' = [sess EXCEPT ![s].pc = "yield_connected",
                            ![s].events = Append(@, "connected")]
    /\ last' = Stream(s)
    /\ UNCHANGED <<tools, phase, req, regd, before>>

\* The generator runs from its start to the yield of the connected event.
StartStream(s) ==
    /\ sess[s].pc = "created"
    /\ sessions' = sessions \cup {sess[s].id}
    /\ sess' = [sess EXCEPT ![s].pc = "yield_connected",
                            ![s].events = Append(@, "connected")]
    /\ last' = Stream(s)
    /\ UNCHANGED <<tools, phase, req, regd, before>>

\* The connected event was sent: the generator enters the try and sleeps.
ConnectedDelivered(s) ==
    /\ sess[s].pc = "yield_connected"
    /\ sess' = [sess EXCEPT ![s].pc = "sleep"]
    /\ last' = Stream(s)
    /\ UNCHANGED <<tools, sessions, phase, req, regd, before>>

\* The loop with the connected event sent again after every sleep.
SleepElapses_reconnect(s) ==
    /\ sess[s].pc = "sleep"
    /\ Len(sess[s].events) <= MaxKeepalive
    /\ sess' = [sess EXCEPT ![s].pc = "yield_keepalive",
                            ![s].events = Append(@, "connected"),
                            ![s].waited = @ + KEEPALIVE_INTERVAL]
    /\ last' = Stream(s)
    /\ UNCHANGED <<tools, sessions, phase, req, regd, before>>

\* asyncio.sleep(15) returns and the generator yields a keepalive.  waited is
\* the time the session has spent in its sleeps.
SleepElapses(s) ==
    /\ sess[s].pc = "sleep"
    /\ Keepalives(sess[s].events) < MaxKeepalive
    /\ sess' = [sess EXCEPT ![s].pc = "yield_keepalive",
                            ![s].events = Append(@, "keepalive"),
                            ![s].waited = @ + KEEPALIVE_INTERVAL]
    /\ last' = Stream(s)
    /\ UNCHANGED <<tools, sessions, phase, req, regd, before>>

\* The keepalive was sent: the generator loops to the sleep.
KeepaliveDelivered(s) ==
    /\ sess[s].pc = "yield_keepalive"
    /\ sess' = [sess EXCEPT ![s].pc = "sleep"]
    /\ last' = Stream(s)
    /\ UNCHANGED <<tools, sessions, phase, req, regd, before>>

\* Whether the except clause of line 148 handles an exception raised at pc.
Caught(pc, exc) ==
    /\ pc \in {"sleep", "yield_keepalive"}
    /\ exc = "CancelledError"

\* The session is cancelled.  In the sleep the generator's own await raises
\* CancelledError.  At a yield the generator is not running: the task that
\* is cancelled is the one sending the event, and the generator is then
\* closed (GeneratorExit is raised at the yield) or, by a transport that
\* forwards the cancellation, has CancelledError thrown into it.
Cancel(s, exc) ==
    /\ sess[s].pc \in Running
    /\ sess[s].pc = "sleep" => exc = "CancelledError"
    /\ sess[s].pc = "created" => exc = "GeneratorExit"
    /\ sessions' = IF Caught(sess[s].pc, exc)
                   THEN sessions \ {sess[s].id} ELSE sessions
    /\ sess' = [sess EXCEPT ![s].pc = "finished"]
    /\ last' = [op |-> "cancel", slot |-> s, at |-> sess[s].pc, exc |-> exc]
    /\ UNCHANGED <<tools, phase, req, regd, before>>

(***************************************************************************)
(* Specifications: the whole server, and its two halves on their own.      *)
(***************************************************************************)
NextRegistry ==
    \/ \E ts \in CtorArgs : Construct(ts)
    \/ \E t \in ToolObjs : RegisterTool(t)
    \/ \E n \in UnregisterNames : UnregisterTool(n)

NextMessages ==
    \/ \E r \in Req, body \in Bodies : Dispatch(r, body)
    \/ \E r \in Req, x \in CustomOutcomes : ToolFinishes(r, x)

NextSessions ==
    \/ \E s \in Slots, i \in ObjIds : HandleSse(s, i)
    \/ \E s \in Slots : StartStream(s)
    \/ \E s \in Slots : ConnectedDelivered(s)
    \/ \E s \in Slots : SleepElapses(s)
    \/ \E s \in Slots : KeepaliveDelivered(s)
    \/ \E s \in Slots, exc \in {"GeneratorExit", "CancelledError"} : Cancel(s, exc)

Next == NextRegistry \/ NextMessages \/ NextSessions

Spec == Init /\ [][Next]_vars

NextMsg == NextRegistry \/ NextMessages

SpecMsg == Init /\ [][NextMsg]_vars

NextSse == (\E ts \in CtorArgs : Construct(ts)) \/ NextSessions

SpecSse == Init /\ [][NextSse]_vars

\* The whole server on a few requests: the registry operations, two calls of
\* handle_messages that can be in flight together, and one SSE connection.
ServerBodies ==
    {Body("object", "initialize", i, "absent", "n/a", "n/a") :
        i \in {"absent", "id-7"}}
    \cup {Body("object", "tools/list", "id-7", "absent", "n/a", "n/a"),
          Body("object", "foo/bar", "id-7", "absent", "n/a", "n/a"),
          Body("object", "tools/call", "id-7", "object", "example_tool",
               "{message: hi}"),
          Body("object", "tools/call", "id-7", "object", "alpha", "{}"),
          Body("object", "tools/call", "id-7", "object", "zz", "{}")}

ServerReq == {1, NumReq + 1}

ServerSlots == {1}

NextServer ==
    \/ NextRegistry
    \/ \E r \in ServerReq, body \in ServerBodies : Dispatch(r, body)
    \/ \E r \in ServerReq, x \in CustomOutcomes : ToolFinishes(r, x)
    \/ \E s \in ServerSlots, i \in ObjIds : HandleSse(s, i)
    \/ \E s \in ServerSlots : StartStream(s)
    \/ \E s \in ServerSlots : ConnectedDelivered(s)
    \/ \E s \in ServerSlots : SleepElapses(s)
    \/ \E s \in ServerSlots : KeepaliveDelivered(s)
    \/ \E s \in ServerSlots, exc \in {"GeneratorExit", "CancelledError"} :
          Cancel(s, exc)

SpecServer == Init /\ [][NextServer]_vars

\* The registry and the two calls of handle_messages, without the sessions.
NextConcurrent ==
    \/ NextRegistry
    \/ \E r \in ServerReq, body \in ServerBodies : Dispatch(r, body)
    \/ \E r \in ServerReq, x \in CustomOutcomes : ToolFinishes(r, x)

SpecConcurrent == Init /\ [][NextConcurrent]_vars

\* The tools terminate, and the event loop resumes a handler whose awaited
\* execute has finished.
FairConcurrent ==
    \A r \in ServerReq : WF_vars(\E x \in CustomOutcomes : ToolFinishes(r, x))

SpecConcurrentFair == SpecConcurrent /\ FairConcurrent

(***************************************************************************)
(* Vocabulary of the properties.                                           *)
(***************************************************************************)
IsHandled == last.op = "handle_messages"

Decoded == IsHandled /\ last.body.kind = "object"

MethodOf(body) == IF body.method = "absent" THEN "None" ELSE body.method

\* The request is a tools/call whose params is an object or is missing.
IsCall(body) ==
    /\ body.kind = "object"
    /\ body.method = "tools/call"
    /\ body.params \in {"object", "absent"}

\* params.name as the client sent it; a missing name reads as None.
NameOf(body) ==
    IF body.params = "absent" \/ body.name = "absent" THEN "None" ELSE body.name

\* The id a response to body has to carry.
EchoedId(body) == IF body.id \in {"absent", "null"} THEN "null" ELSE body.id

Contains(message, piece) == \E i \in 1..Len(message) : message[i] = piece

IsEnvelope(e) ==
    /\ {"jsonrpc", "id"} \subseteq DOMAIN e
    /\ e.jsonrpc = "2.0"
    /\ ("result" \in DOMAIN e) # ("error" \in DOMAIN e)

IsError(e, code) ==
    /\ IsEnvelope(e)
    /\ "error" \in DOMAIN e
    /\ e.error.code = code

Answered(status) ==
    /\ last.outcome.returned
    /\ last.outcome.status_code = status
    /\ IsEnvelope(last.outcome.body)

AllCancelled == \A s \in Slots : sess[s].pc \in {"closed", "finished"}

(***************************************************************************)
(* C1: once every opened session has been cancelled, at whatever point of  *)
(* its life, self.sessions is empty.  The code deregisters only a session  *)
(* that is cancelled inside the try by a CancelledError.                   *)
(***************************************************************************)
C1_NoSessionLeft == AllCancelled => sessions = {}

(***************************************************************************)
(* C2: handle_messages returns a JSON-RPC envelope for every body, and no  *)
(* exception leaves it.  A body that is JSON but not an object makes the   *)
(* outer handler itself raise.                                             *)
(***************************************************************************)
C2_AlwaysAnEnvelope ==
    IsHandled => last.outcome.returned /\ IsEnvelope(last.outcome.body)

(***************************************************************************)
(* C3: an exception raised by a tool's execute is answered with HTTP 200   *)
(* and an error envelope of code -32603 whose message carries the          *)
(* exception's message.                                                    *)
(***************************************************************************)
ExecuteRaised == IsHandled /\ last.ran # <<>> /\ last.exec.exc # NoExc

C3_ToolExceptionIsEnvelope ==
    ExecuteRaised =>
        /\ Answered(200)
        /\ IsError(last.outcome.body, INTERNAL_ERROR)
        /\ \E prefix \in {<<"Tool execution error: ">>} :
              last.outcome.body.error.message = prefix \o last.exec.exc.msg
        /\ last.exec.exc.msg # <<>>

C3_Witness ==
    /\ ExecuteRaised
    /\ last.exec.exc.type = "RuntimeError"
    /\ last.at = "resume"

(***************************************************************************)
(* C4: tools/call with a name that is not a key of the registry is         *)
(* answered with HTTP 200 and an error envelope of code -32603 whose       *)
(* message contains the name, and no tool is executed.  A name that cannot *)
(* be hashed is answered with the message of the TypeError instead.        *)
(***************************************************************************)
UnknownName ==
    /\ IsHandled
    /\ last.at = "arrival"
    /\ IsCall(last.body)
    /\ NameOf(last.body) \notin Keys(tools)

C4_UnknownToolNamed ==
    UnknownName =>
        /\ Answered(200)
        /\ IsError(last.outcome.body, INTERNAL_ERROR)
        /\ Contains(last.outcome.body.error.message, NameOf(last.body))
        /\ last.ran = <<>>

(***************************************************************************)
(* C5: every request whose body decodes as a JSON object is answered with  *)
(* HTTP 200.  The code answers 500 when params is not an object and when   *)
(* the tool's content cannot be serialized.                                *)
(***************************************************************************)
C5_DecodedIs200 == Decoded => Answered(200)

(***************************************************************************)
(* C6: a body that cannot be parsed, or an exception raised before the     *)
(* method is routed, is answered with HTTP 500 and an error envelope of    *)
(* code -32603, with the request's id when the body was decoded and null   *)
(* when it was not.  A decoded body that is not an object is not answered. *)
(***************************************************************************)
FailsBeforeRouting(body) ==
    \/ body.kind # "object"
    \/ body.method = "tools/call" /\ body.params \in {"null", "list"}

C6_InternalErrorEnvelope ==
    (IsHandled /\ FailsBeforeRouting(last.body)) =>
        /\ Answered(500)
        /\ IsError(last.outcome.body, INTERNAL_ERROR)
        /\ last.outcome.body.id =
              IF last.body.kind = "object" THEN EchoedId(last.body) ELSE "null"

(***************************************************************************)
(* C7: tools/list returns exactly the tools that are registered, each with *)
(* the name, description and schema of the registered object, in the       *)
(* order of their registration; an empty registry gives an empty list.     *)
(***************************************************************************)
Advertised(t) ==
    [name |-> t.name, description |-> t.description,
     inputSchema |-> t.input_schema]

C7_ListIsRegistry ==
    (Decoded /\ last.body.method = "tools/list") =>
        /\ Answered(200)
        /\ "result" \in DOMAIN last.outcome.body
        /\ LET listed == last.outcome.body.result.tools
           IN  /\ Len(listed) = Cardinality(regd)
               /\ {listed[i] : i \in 1..Len(listed)} =
                      {Advertised(t) : t \in regd}
               /\ \A i, j \in 1..Len(listed) :
                      i < j => <<listed[i].name, listed[j].name>> \in before

C7_Witness ==
    /\ Decoded
    /\ last.body.method = "tools/list"
    /\ last.outcome.returned
    /\ "result" \in DOMAIN last.outcome.body
    /\ last.outcome.body.result.tools =
          <<Advertised(AlphaTool2), Advertised(ExampleTool)>>

(***************************************************************************)
(* C8: register_tool of a name that is already a key raises and leaves     *)
(* the registry as it was; a constructor given a list with a repeated      *)
(* name raises at the repetition, with the tools before it registered.     *)
(***************************************************************************)
HasDuplicate(ts) ==
    \E i, j \in 1..Len(ts) : i < j /\ ts[i].name = ts[j].name

\* The tools of ts that precede the first one whose name repeats an earlier
\* one.
BeforeDuplicate(ts) ==
    LET k == CHOOSE j \in 1..Len(ts) :
                /\ \E i \in 1..(j - 1) : ts[i].name = ts[j].name
                /\ \A m \in 1..(j - 1) :
                      ~ \E i \in 1..(m - 1) : ts[i].name = ts[m].name
    IN  SubSeq(ts, 1, k - 1)

C8_Step ==
    /\ (last'.op = "register_tool" /\ HasKey(tools, last'.tool.name)) =>
          (last'.raised = "ValueError" /\ tools' = tools)
    /\ (last'.op = "__init__" /\ HasDuplicate(last'.args)) =>
          /\ last'.raised = "ValueError"
          /\ tools' = BeforeDuplicate(last'.args)
          /\ phase' = "failed"

C8_DuplicateRejected == [][C8_Step]_vars

C8_Witness ==
    /\ last.op = "register_tool"
    /\ last.tool = AlphaTool2
    /\ last.raised = "ValueError"
    /\ HasKey(tools, "alpha")
    /\ Lookup(tools, "alpha") = AlphaTool

(***************************************************************************)
(* C9: the response to a body that decodes as an object carries the id of  *)
(* the request, and null when the request has no id or a null one.         *)
(***************************************************************************)
C9_IdEchoed ==
    Decoded =>
        /\ last.outcome.returned
        /\ last.outcome.body.id = EchoedId(last.body)

C9_Witness ==
    /\ Decoded
    /\ last.body.id = "absent"
    /\ last.body.method = "tools/call"
    /\ last.ran # <<>>
    /\ last.outcome.returned
    /\ "error" \in DOMAIN last.outcome.body
    /\ last.outcome.body.id = "null"

(***************************************************************************)
(* C10: a decoded request whose method is none of initialize, tools/list   *)
(* and tools/call, or is missing, is answered with HTTP 200 and an error   *)
(* envelope of code -32601 whatever its params, and call_tool is not       *)
(* called.                                                                 *)
(***************************************************************************)
UnknownMethod ==
    /\ Decoded
    /\ MethodOf(last.body) \notin {"initialize", "tools/list", "tools/call"}

C10_MethodNotFound ==
    UnknownMethod =>
        /\ Answered(200)
        /\ IsError(last.outcome.body, METHOD_NOT_FOUND)
        /\ ~last.called
        /\ last.ran = <<>>

C10_Witness ==
    /\ UnknownMethod
    /\ last.body.method = "absent"
    /\ last.body.params = "null"
    /\ last.outcome.returned

(***************************************************************************)
(* C11: a session emits one connected event, first, and after it only      *)
(* keepalives, one for every 15 units it has slept; while it is not        *)
(* cancelled the next keepalive is always to come (up to MaxKeepalive,     *)
(* where the model stops counting).                                        *)
(***************************************************************************)
ConnectedThenKeepalives(events) ==
    \A i \in 1..Len(events) :
        events[i] = IF i = 1 THEN "connected" ELSE "keepalive"

C11_ConnectedThenKeepalives ==
    \A s \in Slots :
        /\ ConnectedThenKeepalives(sess[s].events)
        /\ sess[s].pc \in {"yield_connected", "sleep", "yield_keepalive"} =>
              sess[s].events # <<>>
        /\ sess[s].pc = "yield_connected" => sess[s].events = <<"connected">>
        /\ Keepalives(sess[s].events) * 15 = sess[s].waited
        /\ sess[s].pc = "yield_connected" => ENABLED ConnectedDelivered(s)
        /\ sess[s].pc = "yield_keepalive" => ENABLED KeepaliveDelivered(s)
        /\ (sess[s].pc = "sleep" /\ Keepalives(sess[s].events) < MaxKeepalive)
              => ENABLED SleepElapses(s)

C11_Witness ==
    \E s \in Slots :
        /\ sess[s].pc = "sleep"
        /\ sess[s].events = <<"connected", "keepalive", "keepalive">>
        /\ sess[s].waited = 30

(***************************************************************************)
(* C12: a tools/call that omits arguments, or gives null for it, is        *)
(* answered as the same call with arguments {} is: execute receives {} and *)
(* the response is the same.                                               *)
(***************************************************************************)
OmitsArguments ==
    /\ IsHandled
    /\ IsCall(last.body)
    /\ last.body.params = "absent" \/ last.body.arguments \in {"absent", "null"}

\* The same call with arguments: {}.
WithEmptyArguments(body) ==
    [body EXCEPT !.params = "object", !.name = NameOf(body) ,
                 !.arguments = "{}"]

C12_OmittedIsEmpty ==
    OmitsArguments =>
        /\ last.ran # <<>> => last.args = "{}"
        /\ last.outcome =
              IF last.at = "arrival"
              THEN Answer(tools, WithEmptyArguments(last.body), last.exec)
              ELSE AfterExecute(WithEmptyArguments(last.body), last.exec)

C12_Witness ==
    /\ OmitsArguments
    /\ last.body.arguments = "null"
    /\ last.ran = <<ExampleTool>>
    /\ last.args = "{}"
    /\ last.exec.exc.type = "ValueError"

(***************************************************************************)
(* C13: every initialize, whatever ran before it and whatever is in        *)
(* flight, is answered with the same descriptor (protocol version,         *)
(* capabilities {tools: {}}, server name and version), never with an       *)
(* error, and changes neither the registry nor the sessions nor the        *)
(* requests in flight.                                                     *)
(***************************************************************************)
Descriptor ==
    [protocolVersion |-> "2024-11-05",
     capabilities |-> [tools |-> "{}"],
     serverInfo |-> [name |-> "my-mcp-server", version |-> "0.1.0"]]

C13_Step ==
    (/\ last'.op = "handle_messages"
     /\ last'.body.kind = "object"
     /\ last'.body.method = "initialize")
    =>  /\ last'.outcome.returned
        /\ last'.outcome.status_code = 200
        /\ DOMAIN last'.outcome.body = {"jsonrpc", "id", "result"}
        /\ last'.outcome.body.result = Descriptor
        /\ UNCHANGED <<tools, sessions, phase, req, sess, regd, before>>

C13_InitializeIsPure == [][C13_Step]_vars

C13_Witness ==
    /\ Decoded
    /\ last.body.method = "initialize"
    /\ last.outcome.returned
    /\ tools # <<>>
    /\ sessions # {}
    /\ \E r \in ConcReq : req[r].pc = "execute"

(***************************************************************************)
(* C14: every envelope handle_messages returns carries exactly one of      *)
(* result and error: result when initialize, tools/list or a tools/call    *)
(* whose tool returned content succeeded, and otherwise error, with a code *)
(* and a message.                                                          *)
(***************************************************************************)
\* The request ran to the end of its route: initialize, tools/list, or a
\* tools/call whose tool returned items of the content classes that can be
\* written.
Succeeded ==
    /\ last.body.kind = "object"
    /\ \/ last.body.method \in {"initialize", "tools/list"}
       \/ /\ IsCall(last.body)
          /\ last.ran # <<>>
          /\ last.exec.exc = NoExc
          /\ \A i \in 1..Len(last.exec.content) :
                last.exec.content[i].cls \in {"TextContent", "ImageContent"}

C14_ResultXorError ==
    (IsHandled /\ last.outcome.returned) =>
        LET e == last.outcome.body
        IN  /\ ("result" \in DOMAIN e) # ("error" \in DOMAIN e)
            /\ ("result" \in DOMAIN e) <=> Succeeded
            /\ "error" \in DOMAIN e =>
                  /\ DOMAIN e.error = {"code", "message"}
                  /\ e.error.code \in {-32603, -32601}
                  /\ e.error.message # <<>>

C14_Witness ==
    /\ IsHandled
    /\ last.outcome.returned
    /\ last.outcome.status_code = 500
    /\ "error" \in DOMAIN last.outcome.body
    /\ last.ran # <<>>

(***************************************************************************)
(* C15: the example tool called with {message: m} is answered with one     *)
(* text item "Echo: " followed by m, and called without a message with an  *)
(* error envelope of code -32603 (missing required argument).  The code    *)
(* takes an empty m for a missing one.                                     *)
(***************************************************************************)
EchoCall ==
    /\ IsHandled
    /\ IsCall(last.body)
    /\ last.ran = <<ExampleTool>>

GivesMessage(body) ==
    body.params = "object" /\ body.arguments \in {"{message: hi}", "{message: }"}

MessageOf(body) == IF body.arguments = "{message: hi}" THEN "hi" ELSE ""

C15_Echo ==
    EchoCall =>
        /\ Answered(200)
        /\ IF GivesMessage(last.body)
           THEN /\ "result" \in DOMAIN last.outcome.body
                /\ last.outcome.body.result.content =
                      <<[type |-> "text",
                         text |-> <<"Echo: ", MessageOf(last.body)>>]>>
           ELSE /\ IsError(last.outcome.body, INTERNAL_ERROR)
                /\ Contains(last.outcome.body.error.message,
                            "Missing required argument: message")


(***************************************************************************)
(* C16: unregister_tool, and a register_tool after it, leave the calls in  *)
(* flight as they are, and unregister_tool of a name that is not a key     *)
(* changes nothing; a call suspended in execute is answered from the tool  *)
(* it looked up, with that tool's content or that tool's exception,        *)
(* whatever the registry holds under its name by then.                     *)
(***************************************************************************)
C16_Step ==
    /\ last'.op = "unregister_tool" =>
          /\ req' = req
          /\ ~HasKey(tools, last'.name) =>
                UNCHANGED <<tools, sessions, phase, req, sess>>
    /\ last'.op = "register_tool" => req' = req
    /\ (last'.op = "handle_messages" /\ last'.at = "resume") =>
          \E r \in ConcReq :
             /\ req[r].pc = "execute"
             /\ req'[r].pc = "idle"
             /\ last'.body = req[r].body
             /\ last'.ran = <<req[r].tool>>
             /\ last'.outcome.returned =>
                   LET e == last'.outcome.body
                   IN  IF last'.exec.exc # NoExc
                       THEN /\ "error" \in DOMAIN e
                            /\ e.error.message =
                                  <<"Tool execution error: ">>
                                      \o last'.exec.exc.msg
                       ELSE "error" \in DOMAIN e =>
                               ~Contains(e.error.message, "Unknown tool: ")
             /\ (/\ last'.exec.exc = NoExc
                 /\ \A i \in 1..Len(last'.exec.content) :
                       last'.exec.content[i].cls = "TextContent")
                => /\ last'.outcome.returned
                   /\ "result" \in DOMAIN last'.outcome.body
                   /\ Len(last'.outcome.body.result.content) =
                         Len(last'.exec.content)
                   /\ \A i \in 1..Len(last'.exec.content) :
                         last'.outcome.body.result.content[i].text =
                            last'.exec.content[i].text

C16_UnregisterKeepsInFlight == [][C16_Step]_vars

\* A call of the first alpha is answered with its content after alpha was
\* unregistered and the second alpha registered.
C16_Witness ==
    /\ IsHandled
    /\ last.at = "resume"
    /\ last.ran = <<AlphaTool>>
    /\ HasKey(tools, "alpha")
    /\ Lookup(tools, "alpha") = AlphaTool2
    /\ last.outcome.returned
    /\ "result" \in DOMAIN last.outcome.body
    /\ last.outcome.body.result.content # <<>>

(***************************************************************************)
(* C17: while a tools/call is suspended in its tool, every other request   *)
(* is taken and answered: the answer is what the registry, the body and    *)
(* the request's own tool give, whatever else is in flight, and a request  *)
(* that is answered leaves the other requests as they are.                 *)
(***************************************************************************)
InFlight == {r \in ConcReq : req[r].pc = "execute"}

C17_Taken ==
    (phase = "serving" /\ InFlight # {}) =>
        \A r \in ServerReq \ InFlight, body \in ServerBodies :
            ENABLED Dispatch(r, body)

C17_Step ==
    /\ (last'.op = "handle_messages" /\ last'.at = "arrival") =>
          /\ last'.outcome = Answer(tools, last'.body, last'.exec)
          /\ req' = req
    /\ (last'.op = "handle_messages" /\ last'.at = "resume") =>
          \E r \in InFlight :
             /\ req' = [req EXCEPT ![r] = Idle]
             /\ last'.outcome = Answer(<<req[r].tool>>, req[r].body, last'.exec)
    /\ (last'.op = "none" /\ req' # req) =>
          \E r \in ConcReq \ InFlight :
             /\ \A q \in ConcReq \ {r} : req'[q] = req[q]
             /\ req'[r].pc = "execute"

C17_Independent == []C17_Taken /\ [][C17_Step]_vars

\* tools/list, and a terminating tools/call, answered while another call is
\* suspended.
C17_Witness ==
    /\ IsHandled
    /\ last.at = "arrival"
    /\ Decoded
    /\ last.body.method = "tools/call"
    /\ last.ran = <<ExampleTool>>
    /\ "result" \in DOMAIN last.outcome.body
    /\ InFlight # {}

(***************************************************************************)
(* C18: a request is answered after its routed operation has finished and  *)
(* once: a tools/call that is suspended in execute has no response until   *)
(* execute returns or raises, its response is the step that ends it, a     *)
(* request that is answered on arrival is never suspended, and a call      *)
(* whose tool finishes is answered.                                        *)
(***************************************************************************)
C18_Step ==
    /\ \A r \in ConcReq :
          (req[r].pc = "execute" /\ req'[r] # req[r]) =>
              /\ req'[r].pc = "idle"
              /\ last'.op = "handle_messages"
              /\ last'.at = "resume"
              /\ last'.body = req[r].body
              /\ last'.ran = <<req[r].tool>>
              /\ \A q \in ConcReq \ {r} : req'[q] = req[q]
    /\ \A r \in ConcReq :
          (req[r].pc = "idle" /\ req'[r].pc = "execute") => last'.op = "none"
    /\ (last'.op = "handle_messages" /\ last'.at = "resume") =>
          \E r \in ConcReq : req[r].pc = "execute" /\ req'[r].pc = "idle"
    /\ (last'.op = "handle_messages" /\ last'.at = "arrival") =>
          /\ req' = req
          /\ last'.ran # <<>> => last'.exec = ExampleExecute(last'.args)

C18_Answered ==
    \A r \in ServerReq :
        (req[r].pc = "execute") ~>
            (req[r].pc = "idle" /\ IsHandled /\ last.at = "resume")

C18_ResponseFollows == [][C18_Step]_vars /\ C18_Answered

\* One of two suspended calls has been answered, the other still waits.
C18_Witness ==
    /\ IsHandled
    /\ last.at = "resume"
    /\ last.outcome.returned
    /\ Cardinality({r \in ConcReq : req[r].pc = "execute"}) = 1
    /\ Cardinality({r \in ServerReq : req[r].pc = "idle"}) = 1

(***************************************************************************)
(* C19: a session that has yielded connected and was not cancelled has its *)
(* id in self.sessions, from the step that yields connected on; an id      *)
(* enters self.sessions only as the id of a generator that starts, and no  *)
(* id is in it before a connection was made.                               *)
(***************************************************************************)
Open == {s \in Slots : sess[s].pc \in {"yield_connected", "sleep", "yield_keepalive"}}

C19_OpenIsRegistered ==
    /\ \A s \in Open : sess[s].events # <<>> /\ sess[s].id \in sessions
    /\ \A s \in Slots : sess[s].pc = "created" => sess[s].events = <<>>
    /\ (\A s \in Slots : sess[s].pc = "closed") => sessions = {}
    /\ \A s, t \in Open : sess[s].id = sess[t].id => s = t

C19_Step ==
    /\ sessions' \ sessions \subseteq
          {sess[s].id : s \in {t \in Slots : /\ sess[t].pc = "created"
                                            /\ sess'[t].pc = "yield_connected"}}
    /\ \A s \in Slots :
          (sess'[s].events # sess[s].events /\ sess'[s].events # <<>>) =>
              sess'[s].id \in sessions'
    /\ \A s \in Open :
          sess[s].id \notin sessions' => sess'[s].pc = "finished"

C19_RegisteredWhileOpen == []C19_OpenIsRegistered /\ [][C19_Step]_vars

\* Two sessions are open and registered, one of them with its connected
\* event not yet delivered.
C19_Witness ==
    /\ Cardinality(Open) = 2
    /\ \E s \in Open : sess[s].pc = "yield_connected"
    /\ \E s \in Open : sess[s].pc = "yield_keepalive"
    /\ sessions = {sess[s].id : s \in Open}

(***************************************************************************)
(* C20: when a tool's execute returns, the response is HTTP 200 with a     *)
(* result whose content has one entry for every item the tool returned,    *)
(* in the same order: {type: "text", text: t} for a text item, and an      *)
(* entry with the item's own type for any other item.  The code answers    *)
(* 500 for an embedded resource, and an error for an item without a type.  *)
(***************************************************************************)
ExecuteReturned ==
    /\ IsHandled
    /\ IsCall(last.body)
    /\ last.ran # <<>>
    /\ last.exec.exc = NoExc

\* The discriminator of an item: the type of its content class.
Discriminator(item) ==
    IF item.cls = "TextContent" THEN "text"
    ELSE IF item.cls = "ImageContent" THEN "image"
    ELSE IF item.cls = "EmbeddedResource" THEN "resource"
    ELSE item.cls

C20_RenderedOneForOne ==
    ExecuteReturned =>
        /\ Answered(200)
        /\ "result" \in DOMAIN last.outcome.body
        /\ LET items == last.exec.content
               content == last.outcome.body.result.content
           IN  /\ Len(content) = Len(items)
               /\ \A i \in 1..Len(items) :
                     /\ content[i].type = Discriminator(items[i])
                     /\ items[i].cls = "TextContent" =>
                           content[i] = [type |-> "text", text |-> items[i].text]

=============================================================================
